---- MODULE Spec2Model ----
(***************************************************************************)
(* Model of the per-file matching orchestrator of the bytematcher package  *)
(* (Matcher.identify) and of the Matcher-level cached sequence engines.    *)
(*                                                                         *)
(* One identify call is a process with a program counter; the producers it *)
(* starts (wac Index, frame Index) and the consumer started by newMatcher  *)
(* are its environment.  Channels are unbuffered: a producer that has an   *)
(* event to deliver is in state "offer" until identify receives it, and    *)
(* identify holds a strike (pc "seqsend"/"mergesend") until the consumer   *)
(* receives it.                                                            *)
(***************************************************************************)
EXTENDS Integers, Sequences, FiniteSets, TLC

\* ---------------------------------------------------------------- bounds
\* events all producers of one call may emit in total
MaxEvents == 2
\* identify calls made on the Matcher in one behaviour
MaxCalls == 2
\* events all producers of the call may emit in total where termination is checked
MaxLiveEvents == 1
\* entries of the home directory that latest reads
MaxFiles == 2
\* characters between prefix and suffix of a file name
MaxMiddle == 2

\* ------------------------------------------------------------- constants
\* the invocations that can be in flight at once (goroutines calling identify)
Calls == {"c1", "c2"}
\* the four producers: forward sequence (bchan), forward frames (bfchan),
\* reverse frames (efchan), reverse sequence (echan)
Sources == {"bs", "bf", "ef", "es"}
\* the Matcher configurations <<MaxBOF, MaxEOF>>: each limit is positive (limited
\* reader), zero (no sequence scan) or negative (whole stream)
Configs == {<<0, 0>>, <<1, 0>>, <<0, -1>>, <<1, -1>>, <<-1, 1>>}

\* the four test-tree tables of the Matcher (engine index -> node)
BOFSeqTTI == <<11, 12>>
EOFSeqTTI == <<21, 22>>
BOFFramesTTI == <<31, 32>>
EOFFramesTTI == <<41, 42>>

NoEvent == [idx |-> 0, sub |-> 0, off |-> 0, len |-> 0, final |-> FALSE]
NoStrike == [node |-> 0, sub |-> 0, off |-> 0, len |-> 0,
             reverse |-> FALSE, frame |-> FALSE, final |-> FALSE]

VARIABLES
    MaxBOF, MaxEOF,        \* Matcher configuration
    bstarted, estarted,    \* Matcher: engine built flags
    bAho, eAho,            \* Matcher: cached engines (0 = nil, else build id)
    pc,                    \* per call: position in identify
    rdr, rrdr,             \* per call: forward / reverse reader ("nil", "limit", "full")
    err,                   \* per call: error of the reverse reader construction
    chans,                 \* per call: which channel variables are non-nil
    held,                  \* per call: strike being sent on incoming
    incoming,              \* per call: "open" / "closed"
    quit, gate,            \* per call: cancellation closed?; gate "none"/"asserted"/"taken"
    pst, pev,              \* per call, per source: producer state and offered event
    engine,                \* per call, per sequence source: engine Index was called on
    nemit,                 \* per call, per source: events emitted so far
    sent,                  \* history: strikes delivered to the consumer
    closes,                \* history: number of close(incoming) executed
    sentAtClose,           \* history: Len(sent) when incoming was closed (-1 before)
    sentAtQuit,            \* history: Len(sent) when quit was asserted (-1 before)
    heldAtQuit,            \* history: a strike was being sent when quit was asserted
    cancelled,             \* history: the quit case of line 55 was taken
    seqExit,               \* history: how the forward-sequence-only loop was left
    seqExitAt,             \* history: Len(sent) at that moment (-1 before)
    liveAtClose,           \* history: producers not terminated when incoming was closed
    bBuilds, eBuilds,      \* history: number of wac.New calls per engine
    replaced,              \* history: an engine in use by a call was reassigned
    started,               \* history: number of identify calls made
    overlap,               \* history: two calls were in flight at once
    concurrent,            \* environment: callers may overlap calls
    budget,                \* environment: matches the producers of one call can find
    taken                  \* history: per source, events identify received from it

\* config.latest and the getters that call it (src/config/pronom.go)
VARIABLES
    files,                 \* siegfried.home as ioutil.ReadDir lists it: names sorted
    droid,                 \* pronom.droid / pronom.container: the file name set, or ""
    lpc,                   \* position: "off", "dir", "range", "ret", "got"
    prefix, suffix,        \* arguments of latest
    fi,                    \* index of the range loop over files
    hits, ids,             \* locals of latest
    lret, lerr,            \* results of latest: name and error
    got                    \* result of the getter

latestVars == <<files, droid, lpc, prefix, suffix, fi, hits, ids, lret, lerr, got>>
matcherVars == <<MaxBOF, MaxEOF, bstarted, estarted, bAho, eAho>>
callVars == <<pc, rdr, rrdr, err, chans, held, incoming, quit, gate, pst, pev, engine, nemit>>
histButTaken == <<sent, closes, sentAtClose, sentAtQuit, heldAtQuit, cancelled, seqExit,
                  seqExitAt, liveAtClose, bBuilds, eBuilds, replaced, started, overlap,
                  concurrent, budget>>
histVars == <<histButTaken, taken>>
vars == <<matcherVars, callVars, histVars, latestVars>>

\* ------------------------------------------------------------ helpers
Active(c) == pc[c] \notin {"idle", "done"}

\* mutant: a zero limit is treated as a limited reader of length zero
ReaderZeroLimited(max) == IF max >= 0 THEN "limit" ELSE "full"

\* reader selection, lines 35-39 and 79-83
Reader(max) == IF max > 0 THEN "limit" ELSE IF max < 0 THEN "full" ELSE "nil"

\* mutant: the reverse sequence case is a copy of the forward sequence case
StrikeOfReverseAsForward(s, e) ==
    CASE s = "bs" -> [node |-> BOFSeqTTI[e.idx], sub |-> e.sub, off |-> e.off, len |-> e.len,
                      reverse |-> FALSE, frame |-> FALSE, final |-> e.final]
      [] s = "es" -> [node |-> BOFSeqTTI[e.idx], sub |-> e.sub, off |-> e.off, len |-> e.len,
                      reverse |-> FALSE, frame |-> FALSE, final |-> e.final]
      [] s = "bf" -> [node |-> BOFFramesTTI[e.idx], sub |-> 0, off |-> e.off, len |-> e.len,
                      reverse |-> FALSE, frame |-> TRUE, final |-> TRUE]
      [] s = "ef" -> [node |-> EOFFramesTTI[e.idx], sub |-> 0, off |-> e.off, len |-> e.len,
                      reverse |-> TRUE, frame |-> TRUE, final |-> TRUE]

\* strike construction, lines 65, 103, 109, 116, 123
StrikeOf(s, e) ==
    CASE s = "bs" -> [node |-> BOFSeqTTI[e.idx], sub |-> e.sub, off |-> e.off, len |-> e.len,
                      reverse |-> FALSE, frame |-> FALSE, final |-> e.final]
      [] s = "es" -> [node |-> EOFSeqTTI[e.idx], sub |-> e.sub, off |-> e.off, len |-> e.len,
                      reverse |-> TRUE, frame |-> FALSE, final |-> e.final]
      [] s = "bf" -> [node |-> BOFFramesTTI[e.idx], sub |-> 0, off |-> e.off, len |-> e.len,
                      reverse |-> FALSE, frame |-> TRUE, final |-> TRUE]
      [] s = "ef" -> [node |-> EOFFramesTTI[e.idx], sub |-> 0, off |-> e.off, len |-> e.len,
                      reverse |-> TRUE, frame |-> TRUE, final |-> TRUE]

\* the producers of call c that have been started and have not terminated
LiveProducers(c) == {s \in Sources : pst[c][s] \in {"run", "offer"}}

\* close(incoming); return
CloseIncoming(c) ==
    /\ incoming' = [incoming EXCEPT ![c] = "closed"]
    /\ closes' = [closes EXCEPT ![c] = @ + 1]
    /\ sentAtClose' = [sentAtClose EXCEPT ![c] = IF @ = -1 THEN Len(sent[c]) ELSE @]
    /\ liveAtClose' = [liveAtClose EXCEPT ![c] = LiveProducers(c)]

NoClose == UNCHANGED <<incoming, closes, sentAtClose, liveAtClose>>

\* wac Index / frame Index: a producer goroutine with a fresh event channel
StartProducers(c, S) ==
    /\ pst' = [pst EXCEPT ![c] = [s \in Sources |-> IF s \in S THEN "run" ELSE @[s]]]
    /\ chans' = [chans EXCEPT ![c] = [s \in Sources |-> IF s \in S THEN TRUE ELSE @[s]]]

\* ------------------------------------------------------------ identify
\* mutant: the bstarted test of line 41 is dropped
StartAlwaysBuild(c) ==
    /\ pc[c] \in {"idle", "done"}
    /\ started < MaxCalls
    /\ concurrent \/ c = "c1"
    /\ started' = started + 1
    /\ overlap' = (overlap \/ \E d \in Calls \ {c} : Active(d))
    /\ rdr' = [rdr EXCEPT ![c] = Reader(MaxBOF)]
    /\ rrdr' = [rrdr EXCEPT ![c] = "nil"]
    /\ err' = [err EXCEPT ![c] = FALSE]
    /\ pc' = [pc EXCEPT ![c] = IF Reader(MaxBOF) # "nil" THEN "bnew" ELSE "bindex"]
    /\ chans' = [chans EXCEPT ![c] = [s \in Sources |-> FALSE]]
    /\ held' = [held EXCEPT ![c] = NoStrike]
    /\ incoming' = [incoming EXCEPT ![c] = "open"]
    /\ quit' = [quit EXCEPT ![c] = FALSE]
    /\ gate' = [gate EXCEPT ![c] = "none"]
    /\ pst' = [pst EXCEPT ![c] = [s \in Sources |-> "none"]]
    /\ pev' = [pev EXCEPT ![c] = [s \in Sources |-> NoEvent]]
    /\ engine' = [engine EXCEPT ![c] = [s \in {"bs", "es"} |-> 0]]
    /\ nemit' = [nemit EXCEPT ![c] = [s \in Sources |-> 0]]
    /\ sent' = [sent EXCEPT ![c] = <<>>]
    /\ closes' = [closes EXCEPT ![c] = 0]
    /\ sentAtClose' = [sentAtClose EXCEPT ![c] = -1]
    /\ sentAtQuit' = [sentAtQuit EXCEPT ![c] = -1]
    /\ heldAtQuit' = [heldAtQuit EXCEPT ![c] = FALSE]
    /\ cancelled' = [cancelled EXCEPT ![c] = FALSE]
    /\ seqExit' = [seqExit EXCEPT ![c] = "none"]
    /\ seqExitAt' = [seqExitAt EXCEPT ![c] = -1]
    /\ liveAtClose' = [liveAtClose EXCEPT ![c] = {}]
    /\ taken' = [taken EXCEPT ![c] = [s \in Sources |-> 0]]
    /\ UNCHANGED <<latestVars, matcherVars, bBuilds, eBuilds, replaced, concurrent, budget>>

\* lines 27-41: set up the call, pick the forward reader, test bstarted
Start(c) ==
    /\ pc[c] \in {"idle", "done"}
    /\ started < MaxCalls
    /\ concurrent \/ c = "c1"
    /\ started' = started + 1
    /\ overlap' = (overlap \/ \E d \in Calls \ {c} : Active(d))
    /\ rdr' = [rdr EXCEPT ![c] = Reader(MaxBOF)]
    /\ rrdr' = [rrdr EXCEPT ![c] = "nil"]
    /\ err' = [err EXCEPT ![c] = FALSE]
    /\ pc' = [pc EXCEPT ![c] = IF Reader(MaxBOF) # "nil" /\ ~bstarted THEN "bnew" ELSE "bindex"]
    /\ chans' = [chans EXCEPT ![c] = [s \in Sources |-> FALSE]]
    /\ held' = [held EXCEPT ![c] = NoStrike]
    /\ incoming' = [incoming EXCEPT ![c] = "open"]
    /\ quit' = [quit EXCEPT ![c] = FALSE]
    /\ gate' = [gate EXCEPT ![c] = "none"]
    /\ pst' = [pst EXCEPT ![c] = [s \in Sources |-> "none"]]
    /\ pev' = [pev EXCEPT ![c] = [s \in Sources |-> NoEvent]]
    /\ engine' = [engine EXCEPT ![c] = [s \in {"bs", "es"} |-> 0]]
    /\ nemit' = [nemit EXCEPT ![c] = [s \in Sources |-> 0]]
    /\ sent' = [sent EXCEPT ![c] = <<>>]
    /\ closes' = [closes EXCEPT ![c] = 0]
    /\ sentAtClose' = [sentAtClose EXCEPT ![c] = -1]
    /\ sentAtQuit' = [sentAtQuit EXCEPT ![c] = -1]
    /\ heldAtQuit' = [heldAtQuit EXCEPT ![c] = FALSE]
    /\ cancelled' = [cancelled EXCEPT ![c] = FALSE]
    /\ seqExit' = [seqExit EXCEPT ![c] = "none"]
    /\ seqExitAt' = [seqExitAt EXCEPT ![c] = -1]
    /\ liveAtClose' = [liveAtClose EXCEPT ![c] = {}]
    /\ taken' = [taken EXCEPT ![c] = [s \in Sources |-> 0]]
    /\ UNCHANGED <<latestVars, matcherVars, bBuilds, eBuilds, replaced, concurrent, budget>>

\* lines 42-43: b.bAho = wac.New(...); b.bstarted = true
BuildB(c) ==
    /\ pc[c] = "bnew"
    /\ bBuilds' = bBuilds + 1
    /\ bAho' = bBuilds + 1
    /\ bstarted' = TRUE
    /\ replaced' = (replaced \/ \E d \in Calls : Active(d) /\ engine[d]["bs"] # 0)
    /\ pc' = [pc EXCEPT ![c] = "bindex"]
    /\ UNCHANGED <<latestVars, MaxBOF, MaxEOF, estarted, eAho, rdr, rrdr, err, chans, held, incoming, quit,
                   gate, pst, pev, engine, nemit, sent, closes, sentAtClose, sentAtQuit,
                   heldAtQuit, cancelled, seqExit, seqExitAt, liveAtClose, eBuilds, started, overlap,
                   concurrent, budget, taken>>

\* mutant: the forward-sequence-only loop of lines 49-70 is skipped
BIndexNoLoop(c) ==
    /\ pc[c] = "bindex"
    /\ IF rdr[c] # "nil"
          THEN /\ StartProducers(c, {"bs"})
               /\ engine' = [engine EXCEPT ![c]["bs"] = bAho]
          ELSE UNCHANGED <<pst, chans, engine>>
    /\ pc' = [pc EXCEPT ![c] = "frames"]
    /\ UNCHANGED <<latestVars, matcherVars, rdr, rrdr, err, held, incoming, quit, gate, pev, nemit, histVars>>

\* lines 45-48: start the forward sequence engine and enter the loop, or skip it
BIndex(c) ==
    /\ pc[c] = "bindex"
    /\ IF rdr[c] # "nil"
          THEN /\ StartProducers(c, {"bs"})
               /\ engine' = [engine EXCEPT ![c]["bs"] = bAho]
               /\ pc' = [pc EXCEPT ![c] = "seqloop"]
          ELSE /\ UNCHANGED <<pst, chans, engine>>
               /\ pc' = [pc EXCEPT ![c] = "frames"]
    /\ UNCHANGED <<latestVars, matcherVars, rdr, rrdr, err, held, incoming, quit, gate, pev, nemit, histVars>>


\* mutant: line 126 tests whether some channel is nil, not whether all four are
AfterSelectAnyNil(c, ch) ==
    IF \E s \in Sources : ~ch[s]
       THEN /\ CloseIncoming(c)
            /\ pc' = [pc EXCEPT ![c] = "done"]
       ELSE /\ NoClose
            /\ pc' = [pc EXCEPT ![c] = "merge"]

\* line 126-129: close incoming and return once every channel variable is nil
AfterSelect(c, ch) ==
    IF \A s \in Sources : ~ch[s]
       THEN /\ CloseIncoming(c)
            /\ pc' = [pc EXCEPT ![c] = "done"]
       ELSE /\ NoClose
            /\ pc' = [pc EXCEPT ![c] = "merge"]

\* mutant: the loop receives the next event while the previous strike is unsent
SeqRecvBuffered(c) ==
    /\ pc[c] \in {"seqloop", "seqsend"}
    /\ chans[c]["bs"]
    /\ pst[c]["bs"] = "offer"
    /\ held' = [held EXCEPT ![c] = StrikeOf("bs", pev[c]["bs"])]
    /\ pst' = [pst EXCEPT ![c]["bs"] = "run"]
    /\ pev' = [pev EXCEPT ![c]["bs"] = NoEvent]
    /\ pc' = [pc EXCEPT ![c] = "seqsend"]
    /\ taken' = [taken EXCEPT ![c]["bs"] = @ + 1]
    /\ UNCHANGED <<latestVars, matcherVars, rdr, rrdr, err, chans, incoming, quit, gate, engine, nemit,
                   histButTaken>>

\* lines 52, 63-65: an event of the forward sequence engine is received in the loop
SeqRecv(c) ==
    /\ pc[c] = "seqloop"
    /\ pst[c]["bs"] = "offer"
    /\ held' = [held EXCEPT ![c] = StrikeOf("bs", pev[c]["bs"])]
    /\ pst' = [pst EXCEPT ![c]["bs"] = "run"]
    /\ pev' = [pev EXCEPT ![c]["bs"] = NoEvent]
    /\ pc' = [pc EXCEPT ![c] = "seqsend"]
    /\ taken' = [taken EXCEPT ![c]["bs"] = @ + 1]
    /\ UNCHANGED <<latestVars, matcherVars, rdr, rrdr, err, chans, incoming, quit, gate, engine, nemit,
                   histButTaken>>

\* lines 52-53: bchan is observed closed in the loop
SeqClosed(c) ==
    /\ pc[c] = "seqloop"
    /\ pst[c]["bs"] = "closed"
    /\ pc' = [pc EXCEPT ![c] = "seqquit"]
    /\ seqExit' = [seqExit EXCEPT ![c] = "closed"]
    /\ seqExitAt' = [seqExitAt EXCEPT ![c] = Len(sent[c])]
    /\ UNCHANGED <<latestVars, matcherVars, rdr, rrdr, err, chans, held, incoming, quit, gate, pst, pev, engine,
                   nemit, sent, closes, sentAtClose, sentAtQuit, heldAtQuit, cancelled, liveAtClose,
                   bBuilds, eBuilds, replaced, started, overlap, concurrent, budget, taken>>

\* mutant: the cancelled case returns without closing incoming
SeqQuitNoClose(c) ==
    /\ pc[c] = "seqquit"
    /\ NoClose
    /\ pc' = [pc EXCEPT ![c] = IF quit[c] THEN "done" ELSE "frames"]
    /\ cancelled' = [cancelled EXCEPT ![c] = quit[c]]
    /\ UNCHANGED <<latestVars, matcherVars, rdr, rrdr, err, chans, held, quit, gate, pst, pev, engine, nemit,
                   sent, sentAtQuit, heldAtQuit, seqExit, seqExitAt, bBuilds, eBuilds,
                   replaced, started, overlap, concurrent, budget, taken>>

\* mutant: the quit case is missing, the loop is always left for the merge phase
SeqQuitIgnored(c) ==
    /\ pc[c] = "seqquit"
    /\ NoClose
    /\ pc' = [pc EXCEPT ![c] = "frames"]
    /\ cancelled' = [cancelled EXCEPT ![c] = quit[c]]
    /\ UNCHANGED <<latestVars, matcherVars, rdr, rrdr, err, chans, held, quit, gate, pst, pev, engine, nemit,
                   sent, sentAtQuit, heldAtQuit, seqExit, seqExitAt, bBuilds, eBuilds,
                   replaced, started, overlap, concurrent, budget, taken>>

\* mutant: the two cases of the inner select are swapped
SeqQuitInverted(c) ==
    /\ pc[c] = "seqquit"
    /\ IF ~quit[c]
          THEN /\ CloseIncoming(c)
               /\ pc' = [pc EXCEPT ![c] = "done"]
          ELSE /\ NoClose
               /\ pc' = [pc EXCEPT ![c] = "frames"]
    /\ cancelled' = [cancelled EXCEPT ![c] = quit[c]]
    /\ UNCHANGED <<latestVars, matcherVars, rdr, rrdr, err, chans, held, quit, gate, pst, pev, engine, nemit,
                   sent, sentAtQuit, heldAtQuit, seqExit, seqExitAt, bBuilds, eBuilds,
                   replaced, started, overlap, concurrent, budget, taken>>

\* lines 54-62: cancelled: close incoming and return; otherwise leave the loop
SeqQuit(c) ==
    /\ pc[c] = "seqquit"
    /\ IF quit[c]
          THEN /\ CloseIncoming(c)
               /\ pc' = [pc EXCEPT ![c] = "done"]
          ELSE /\ NoClose
               /\ pc' = [pc EXCEPT ![c] = "frames"]
    /\ cancelled' = [cancelled EXCEPT ![c] = quit[c]]
    /\ UNCHANGED <<latestVars, matcherVars, rdr, rrdr, err, chans, held, quit, gate, pst, pev, engine, nemit,
                   sent, sentAtQuit, heldAtQuit, seqExit, seqExitAt, bBuilds, eBuilds,
                   replaced, started, overlap, concurrent, budget, taken>>

\* mutant: leaving the loop on a gate signal discards the forward sequence channel
SeqGateDiscards(c) ==
    /\ pc[c] = "seqloop"
    /\ gate[c] = "asserted"
    /\ gate' = [gate EXCEPT ![c] = "taken"]
    /\ chans' = [chans EXCEPT ![c]["bs"] = FALSE]
    /\ pc' = [pc EXCEPT ![c] = "frames"]
    /\ seqExit' = [seqExit EXCEPT ![c] = "gate"]
    /\ seqExitAt' = [seqExitAt EXCEPT ![c] = Len(sent[c])]
    /\ UNCHANGED <<latestVars, matcherVars, rdr, rrdr, err, held, incoming, quit, pst, pev, engine,
                   nemit, sent, closes, sentAtClose, sentAtQuit, heldAtQuit, cancelled, liveAtClose,
                   bBuilds, eBuilds, replaced, started, overlap, concurrent, budget, taken>>

\* lines 67-68: the gate signal is received in the loop
SeqGate(c) ==
    /\ pc[c] = "seqloop"
    /\ gate[c] = "asserted"
    /\ gate' = [gate EXCEPT ![c] = "taken"]
    /\ pc' = [pc EXCEPT ![c] = "frames"]
    /\ seqExit' = [seqExit EXCEPT ![c] = "gate"]
    /\ seqExitAt' = [seqExitAt EXCEPT ![c] = Len(sent[c])]
    /\ UNCHANGED <<latestVars, matcherVars, rdr, rrdr, err, chans, held, incoming, quit, pst, pev, engine,
                   nemit, sent, closes, sentAtClose, sentAtQuit, heldAtQuit, cancelled, liveAtClose,
                   bBuilds, eBuilds, replaced, started, overlap, concurrent, budget, taken>>

\* lines 74-75: start the forward and the reverse frame matcher
Frames(c) ==
    /\ pc[c] = "frames"
    /\ StartProducers(c, {"bf", "ef"})
    /\ pc' = [pc EXCEPT ![c] = "rrdr"]
    /\ UNCHANGED <<latestVars, matcherVars, rdr, rrdr, err, held, incoming, quit, gate, pev, engine, nemit,
                   histVars>>

\* mutant: the error of the reverse reader construction is not tested (lines 84-87)
RReaderErrIgnored(c) ==
    /\ pc[c] = "rrdr"
    /\ \E e \in (IF Reader(MaxEOF) = "nil" THEN {FALSE} ELSE BOOLEAN) :
          /\ err' = [err EXCEPT ![c] = e]
          /\ rrdr' = [rrdr EXCEPT ![c] = IF e THEN "nil" ELSE Reader(MaxEOF)]
          /\ pc' = [pc EXCEPT ![c] =
                      IF ~e /\ Reader(MaxEOF) # "nil" /\ ~estarted THEN "enew" ELSE "eindex"]
    /\ NoClose
    /\ UNCHANGED <<latestVars, matcherVars, rdr, chans, held, quit, gate, pst, pev, engine, nemit,
                   sent, sentAtQuit, heldAtQuit, cancelled, seqExit, seqExitAt, bBuilds, eBuilds,
                   replaced, started, overlap, concurrent, budget, taken>>

\* mutant: estarted is set as soon as a reverse reader is asked for, before the error
\* of its construction is tested
RReaderMarksStarted(c) ==
    /\ pc[c] = "rrdr"
    /\ \E e \in (IF Reader(MaxEOF) = "nil" THEN {FALSE} ELSE BOOLEAN) :
          /\ err' = [err EXCEPT ![c] = e]
          /\ IF e
                THEN /\ CloseIncoming(c)
                     /\ pc' = [pc EXCEPT ![c] = "done"]
                     /\ estarted' = TRUE
                     /\ UNCHANGED rrdr
                ELSE /\ NoClose
                     /\ rrdr' = [rrdr EXCEPT ![c] = Reader(MaxEOF)]
                     /\ UNCHANGED estarted
                     /\ pc' = [pc EXCEPT ![c] =
                                 IF Reader(MaxEOF) # "nil" /\ ~estarted THEN "enew" ELSE "eindex"]
    /\ UNCHANGED <<latestVars, MaxBOF, MaxEOF, bstarted, bAho, eAho, rdr, chans, held, quit, gate, pst, pev,
                   engine, nemit, sent, sentAtQuit, heldAtQuit, cancelled, seqExit, seqExitAt,
                   bBuilds, eBuilds, replaced, started, overlap, concurrent, budget, taken>>

\* lines 77-89: construct the reverse reader; on error close incoming and return;
\* otherwise test estarted
RReader(c) ==
    /\ pc[c] = "rrdr"
    /\ \E e \in (IF Reader(MaxEOF) = "nil" THEN {FALSE} ELSE BOOLEAN) :
          /\ err' = [err EXCEPT ![c] = e]
          /\ IF e
                THEN /\ CloseIncoming(c)
                     /\ pc' = [pc EXCEPT ![c] = "done"]
                     /\ UNCHANGED rrdr
                ELSE /\ NoClose
                     /\ rrdr' = [rrdr EXCEPT ![c] = Reader(MaxEOF)]
                     /\ pc' = [pc EXCEPT ![c] =
                                 IF Reader(MaxEOF) # "nil" /\ ~estarted THEN "enew" ELSE "eindex"]
    /\ UNCHANGED <<latestVars, matcherVars, rdr, chans, held, quit, gate, pst, pev, engine, nemit,
                   sent, sentAtQuit, heldAtQuit, cancelled, seqExit, seqExitAt, bBuilds, eBuilds,
                   replaced, started, overlap, concurrent, budget, taken>>

\* lines 90-91: b.eAho = wac.New(...); b.estarted = true
BuildE(c) ==
    /\ pc[c] = "enew"
    /\ eBuilds' = eBuilds + 1
    /\ eAho' = eBuilds + 1
    /\ estarted' = TRUE
    /\ replaced' = (replaced \/ \E d \in Calls : Active(d) /\ engine[d]["es"] # 0)
    /\ pc' = [pc EXCEPT ![c] = "eindex"]
    /\ UNCHANGED <<latestVars, MaxBOF, MaxEOF, bstarted, bAho, rdr, rrdr, err, chans, held, incoming, quit,
                   gate, pst, pev, engine, nemit, sent, closes, sentAtClose, sentAtQuit,
                   heldAtQuit, cancelled, seqExit, seqExitAt, liveAtClose, bBuilds, started, overlap,
                   concurrent, budget, taken>>

\* mutant: the rrdr != nil test of line 94 is dropped
EIndexAlways(c) ==
    /\ pc[c] = "eindex"
    /\ StartProducers(c, {"es"})
    /\ engine' = [engine EXCEPT ![c]["es"] = eAho]
    /\ pc' = [pc EXCEPT ![c] = "merge"]
    /\ UNCHANGED <<latestVars, matcherVars, rdr, rrdr, err, held, incoming, quit, gate, pev, nemit, histVars>>

\* lines 93-96: start the reverse sequence engine if there is a reverse reader
EIndex(c) ==
    /\ pc[c] = "eindex"
    /\ IF rrdr[c] # "nil"
          THEN /\ StartProducers(c, {"es"})
               /\ engine' = [engine EXCEPT ![c]["es"] = eAho]
          ELSE UNCHANGED <<pst, chans, engine>>
    /\ pc' = [pc EXCEPT ![c] = "merge"]
    /\ UNCHANGED <<latestVars, matcherVars, rdr, rrdr, err, held, incoming, quit, gate, pev, nemit, histVars>>

\* mutant: an event received in the merge loop is not sent on
MergeRecvDropped(c, s) ==
    /\ pc[c] = "merge"
    /\ chans[c][s]
    /\ pst[c][s] = "offer"
    /\ pst' = [pst EXCEPT ![c][s] = "run"]
    /\ pev' = [pev EXCEPT ![c][s] = NoEvent]
    /\ taken' = [taken EXCEPT ![c][s] = @ + 1]
    /\ UNCHANGED <<latestVars, matcherVars, pc, held, rdr, rrdr, err, chans, incoming, quit, gate, engine,
                   nemit, histButTaken>>

\* lines 99-124, else branches: an event is received from a non-nil channel
MergeRecv(c, s) ==
    /\ pc[c] = "merge"
    /\ chans[c][s]
    /\ pst[c][s] = "offer"
    /\ held' = [held EXCEPT ![c] = StrikeOf(s, pev[c][s])]
    /\ pst' = [pst EXCEPT ![c][s] = "run"]
    /\ pev' = [pev EXCEPT ![c][s] = NoEvent]
    /\ pc' = [pc EXCEPT ![c] = "mergesend"]
    /\ taken' = [taken EXCEPT ![c][s] = @ + 1]
    /\ UNCHANGED <<latestVars, matcherVars, rdr, rrdr, err, chans, incoming, quit, gate, engine, nemit,
                   histButTaken>>

\* mutant: the merge loop has a case for the gate as well, and stops on it
MergeClosedOrGate(c, s) ==
    /\ pc[c] = "merge"
    /\ chans[c][s]
    /\ \/ /\ pst[c][s] = "closed"
          /\ chans' = [chans EXCEPT ![c][s] = FALSE]
          /\ AfterSelect(c, chans'[c])
          /\ UNCHANGED gate
       \/ /\ gate[c] = "asserted"
          /\ gate' = [gate EXCEPT ![c] = "taken"]
          /\ CloseIncoming(c)
          /\ pc' = [pc EXCEPT ![c] = "done"]
          /\ UNCHANGED chans
    /\ UNCHANGED <<latestVars, matcherVars, rdr, rrdr, err, held, quit, pst, pev, engine, nemit,
                   sent, sentAtQuit, heldAtQuit, cancelled, seqExit, seqExitAt, bBuilds, eBuilds,
                   replaced, started, overlap, concurrent, budget, taken>>

\* mutant: a channel found closed is not set to nil, so the select keeps choosing it
MergeClosedKept(c, s) ==
    /\ pc[c] = "merge"
    /\ chans[c][s]
    /\ pst[c][s] = "closed"
    /\ AfterSelect(c, chans[c])
    /\ UNCHANGED <<latestVars, matcherVars, rdr, rrdr, err, chans, held, quit, gate, pst, pev, engine, nemit,
                   sent, sentAtQuit, heldAtQuit, cancelled, seqExit, seqExitAt, bBuilds, eBuilds,
                   replaced, started, overlap, concurrent, budget, taken>>

\* lines 99-124, !ok branches, then line 126: a closed channel is set to nil
MergeClosed(c, s) ==
    /\ pc[c] = "merge"
    /\ chans[c][s]
    /\ pst[c][s] = "closed"
    /\ chans' = [chans EXCEPT ![c][s] = FALSE]
    /\ AfterSelect(c, chans'[c])
    /\ UNCHANGED <<latestVars, matcherVars, rdr, rrdr, err, held, quit, gate, pst, pev, engine, nemit,
                   sent, sentAtQuit, heldAtQuit, cancelled, seqExit, seqExitAt, bBuilds, eBuilds,
                   replaced, started, overlap, concurrent, budget, taken>>

\* mutant: the strike overtakes the strikes sent before it
SendStrikeOvertakes(c) ==
    /\ pc[c] \in {"seqsend", "mergesend"}
    /\ sent' = [sent EXCEPT ![c] = <<held[c]>> \o @]
    /\ held' = [held EXCEPT ![c] = NoStrike]
    /\ IF pc[c] = "seqsend"
          THEN /\ pc' = [pc EXCEPT ![c] = "seqloop"]
               /\ NoClose
          ELSE AfterSelect(c, chans[c])
    /\ UNCHANGED <<latestVars, matcherVars, rdr, rrdr, err, chans, quit, gate, pst, pev, engine, nemit,
                   sentAtQuit, heldAtQuit, cancelled, seqExit, seqExitAt, bBuilds, eBuilds,
                   replaced, started, overlap, concurrent, budget, taken>>

\* lines 65, 103, 109, 116, 123: the send on incoming completes when the consumer
\* receives; in the merge loop line 126 follows
SendStrike(c) ==
    /\ pc[c] \in {"seqsend", "mergesend"}
    /\ sent' = [sent EXCEPT ![c] = Append(@, held[c])]
    /\ held' = [held EXCEPT ![c] = NoStrike]
    /\ IF pc[c] = "seqsend"
          THEN /\ pc' = [pc EXCEPT ![c] = "seqloop"]
               /\ NoClose
          ELSE AfterSelect(c, chans[c])
    /\ UNCHANGED <<latestVars, matcherVars, rdr, rrdr, err, chans, quit, gate, pst, pev, engine, nemit,
                   sentAtQuit, heldAtQuit, cancelled, seqExit, seqExitAt, bBuilds, eBuilds,
                   replaced, started, overlap, concurrent, budget, taken>>

\* ------------------------------------------------------------ environment
\* the k-th event of source s: offsets number the events of a source; a sequence
\* engine alternates provisional hits of pattern 1 and final hits of pattern 2, a
\* frame matcher hits of frame 1 and 2 (frame events carry no Final and no sub-index)
EventOf(s, k) ==
    [idx |-> 2 - (k % 2), sub |-> IF s \in {"bs", "es"} THEN k % 2 ELSE 0, off |-> k,
     len |-> 1 + (k % 2), final |-> (s \in {"bs", "es"} /\ k % 2 = 0)]

Emitted(c) == nemit[c]["bs"] + nemit[c]["bf"] + nemit[c]["ef"] + nemit[c]["es"]

\* a producer finds a match and blocks sending it on its channel
Emit(c, s) ==
    /\ Active(c)
    /\ pst[c][s] = "run"
    /\ Emitted(c) < budget
    /\ pev' = [pev EXCEPT ![c][s] = EventOf(s, nemit[c][s] + 1)]
    /\ pst' = [pst EXCEPT ![c][s] = "offer"]
    /\ nemit' = [nemit EXCEPT ![c][s] = @ + 1]
    /\ UNCHANGED <<latestVars, matcherVars, pc, rdr, rrdr, err, chans, held, incoming, quit, gate, engine,
                   histVars>>

\* a producer closes its channel: its reader is exhausted, or it observes quit
\* (also while blocked sending an event)
ProducerClose(c, s) ==
    /\ Active(c)
    /\ \/ pst[c][s] = "run"
       \/ pst[c][s] = "offer" /\ quit[c]
    /\ pst' = [pst EXCEPT ![c][s] = "closed"]
    /\ pev' = [pev EXCEPT ![c][s] = NoEvent]
    /\ UNCHANGED <<latestVars, matcherVars, pc, rdr, rrdr, err, chans, held, incoming, quit, gate, engine,
                   nemit, histVars>>

\* the consumer (or an upstream owner) closes quit
Quit(c) ==
    /\ Active(c)
    /\ ~quit[c]
    /\ quit' = [quit EXCEPT ![c] = TRUE]
    /\ sentAtQuit' = [sentAtQuit EXCEPT ![c] = Len(sent[c])]
    /\ heldAtQuit' = [heldAtQuit EXCEPT ![c] = (held[c] # NoStrike)]
    /\ UNCHANGED <<latestVars, matcherVars, pc, rdr, rrdr, err, chans, held, incoming, gate, pst, pev, engine,
                   nemit, sent, closes, sentAtClose, cancelled, seqExit, seqExitAt, liveAtClose,
                   bBuilds, eBuilds, replaced, started, overlap, concurrent, budget, taken>>

\* the consumer asserts the gate
Gate(c) ==
    /\ Active(c)
    /\ gate[c] = "none"
    /\ gate' = [gate EXCEPT ![c] = "asserted"]
    /\ UNCHANGED <<latestVars, matcherVars, pc, rdr, rrdr, err, chans, held, incoming, quit, pst, pev, engine,
                   nemit, histVars>>

\* ------------------------------------------------------------ specifications
InitCalls ==
    /\ bstarted = FALSE /\ estarted = FALSE
    /\ bAho = 0 /\ eAho = 0
    /\ pc = [c \in Calls |-> "idle"]
    /\ rdr = [c \in Calls |-> "nil"]
    /\ rrdr = [c \in Calls |-> "nil"]
    /\ err = [c \in Calls |-> FALSE]
    /\ chans = [c \in Calls |-> [s \in Sources |-> FALSE]]
    /\ held = [c \in Calls |-> NoStrike]
    /\ incoming = [c \in Calls |-> "open"]
    /\ quit = [c \in Calls |-> FALSE]
    /\ gate = [c \in Calls |-> "none"]
    /\ pst = [c \in Calls |-> [s \in Sources |-> "none"]]
    /\ pev = [c \in Calls |-> [s \in Sources |-> NoEvent]]
    /\ engine = [c \in Calls |-> [s \in {"bs", "es"} |-> 0]]
    /\ nemit = [c \in Calls |-> [s \in Sources |-> 0]]
    /\ sent = [c \in Calls |-> <<>>]
    /\ closes = [c \in Calls |-> 0]
    /\ sentAtClose = [c \in Calls |-> -1]
    /\ sentAtQuit = [c \in Calls |-> -1]
    /\ heldAtQuit = [c \in Calls |-> FALSE]
    /\ cancelled = [c \in Calls |-> FALSE]
    /\ seqExit = [c \in Calls |-> "none"]
    /\ seqExitAt = [c \in Calls |-> -1]
    /\ liveAtClose = [c \in Calls |-> {}]
    /\ bBuilds = 0 /\ eBuilds = 0
    /\ replaced = FALSE
    /\ overlap = FALSE
    /\ taken = [c \in Calls |-> [s \in Sources |-> 0]]

\* no getter of package config is called
LatestOff ==
    /\ files = <<>> /\ droid = <<>> /\ lpc = "off"
    /\ prefix = <<>> /\ suffix = <<>>
    /\ fi = 0 /\ hits = <<>> /\ ids = <<>>
    /\ lret = <<>> /\ lerr = FALSE /\ got = <<>>

\* a Matcher on which identify is called by one caller, one call after another
Init ==
    /\ \E cfg \in Configs : MaxBOF = cfg[1] /\ MaxEOF = cfg[2]
    /\ concurrent = FALSE
    /\ budget = MaxEvents
    /\ started = 0
    /\ InitCalls
    /\ LatestOff

\* the last call made on a Matcher whose engines are not built yet
LiveInit ==
    /\ \E cfg \in Configs : MaxBOF = cfg[1] /\ MaxEOF = cfg[2]
    /\ concurrent = FALSE
    /\ budget = MaxLiveEvents
    /\ started = MaxCalls - 1
    /\ InitCalls
    /\ LatestOff

\* a Matcher shared by callers whose identify calls may overlap
ConcInit ==
    /\ \E cfg \in Configs : MaxBOF = cfg[1] /\ MaxEOF = cfg[2]
    /\ concurrent = TRUE
    /\ budget = 0
    /\ started = 0
    /\ InitCalls
    /\ LatestOff

Next ==
    \E c \in Calls :
        \/ Start(c)
        \/ BuildB(c)
        \/ BIndex(c)
        \/ SeqRecv(c)
        \/ SeqClosed(c)
        \/ SeqQuit(c)
        \/ SeqGate(c)
        \/ Frames(c)
        \/ RReader(c)
        \/ BuildE(c)
        \/ EIndex(c)
        \/ \E s \in Sources : MergeRecv(c, s)
        \/ \E s \in Sources : MergeClosed(c, s)
        \/ SendStrike(c)
        \/ \E s \in Sources : Emit(c, s)
        \/ \E s \in Sources : ProducerClose(c, s)
        \/ Quit(c)
        \/ Gate(c)

Spec == Init /\ [][Next]_vars

\* the steps identify takes on its own (receiving from a producer included)
IdentifyStep(c) ==
    \/ BuildB(c)
    \/ BIndex(c)
    \/ SeqRecv(c)
    \/ SeqClosed(c)
    \/ SeqQuit(c)
    \/ SeqGate(c)
    \/ Frames(c)
    \/ RReader(c)
    \/ BuildE(c)
    \/ EIndex(c)
    \/ \E s \in Sources : MergeRecv(c, s)
    \/ \E s \in Sources : MergeClosed(c, s)

\* the goroutine of identify is scheduled whenever it can take a step, and every
\* producer eventually closes its channel (its reader is exhausted or it observes
\* quit); nothing is assumed of the consumer
LiveSpec ==
    /\ LiveInit
    /\ [][Next]_vars
    /\ \A c \in Calls : WF_vars(IdentifyStep(c))
    /\ \A c \in Calls : \A s \in Sources : WF_vars(ProducerClose(c, s))

\* overlapping calls on inputs in which no producer finds a match, with a consumer
\* that neither cancels nor asserts the gate
ConcNext ==
    \E c \in Calls :
        \/ Start(c)
        \/ BuildB(c)
        \/ BIndex(c)
        \/ SeqClosed(c)
        \/ SeqQuit(c)
        \/ Frames(c)
        \/ RReader(c)
        \/ BuildE(c)
        \/ EIndex(c)
        \/ \E s \in Sources : MergeClosed(c, s)
        \/ \E s \in Sources : ProducerClose(c, s)

ConcSpec == ConcInit /\ [][ConcNext]_vars

\* ------------------------------------------------------------ config.latest
\* File names are sequences of characters.  "V" stands for the prefix
\* "DROID_SignatureFile_V" (or "container-signature-") and "x" for the suffix ".xml".
\* the characters in byte order: the order in which ReadDir sorts names
CharOrder == <<"-", "0", "1", "V", "x">>
Ord(ch) == CHOOSE i \in 1..Len(CharOrder) : CharOrder[i] = ch
\* the decimal digits; the value of a digit is its position minus one
Digits == <<"0", "1", "2", "3", "4", "5", "6", "7", "8", "9">>
IsDigit(ch) == \E i \in 1..Len(Digits) : Digits[i] = ch
DigitVal(ch) == (CHOOSE i \in 1..Len(Digits) : Digits[i] = ch) - 1

\* the characters a file name may have between prefix and suffix
MidChars == {"-", "0", "1"}
Middles == UNION {[1..k -> MidChars] : k \in 0..MaxMiddle}
\* the (prefix, suffix) pairs latest is called with; with the second pair a name can
\* have the prefix and the suffix in the same place
PrefixSuffix == {<< <<"V">>, <<"x">> >>, << <<"x">>, <<"x">> >>}
\* the names a directory entry may have: "V" middle "x", and names that lack the
\* prefix, the suffix or both
Names == {<<"V">> \o m \o <<"x">> : m \in Middles} \cup {<<"x">>, <<"V", "1">>, <<"1", "x">>}
\* the values of pronom.droid: not set, or set
SetNames == {<<>>, <<"V", "1", "x">>}

\* byte-wise comparison of two names
RECURSIVE Less(_, _)
Less(a, b) ==
    IF b = <<>> THEN FALSE
    ELSE IF a = <<>> THEN TRUE
    ELSE IF a[1] # b[1] THEN Ord(a[1]) < Ord(b[1])
    ELSE Less(Tail(a), Tail(b))

\* strings.HasPrefix, HasSuffix, TrimPrefix, TrimSuffix
HasPrefix(s, p) == Len(s) >= Len(p) /\ SubSeq(s, 1, Len(p)) = p
HasSuffix(s, x) == Len(s) >= Len(x) /\ SubSeq(s, Len(s) - Len(x) + 1, Len(s)) = x
TrimPrefix(s, p) == IF HasPrefix(s, p) THEN SubSeq(s, Len(p) + 1, Len(s)) ELSE s
TrimSuffix(s, x) == IF HasSuffix(s, x) THEN SubSeq(s, 1, Len(s) - Len(x)) ELSE s

\* the value of a sequence of digits read left to right, starting from n
RECURSIVE DigitsValue(_, _)
DigitsValue(s, n) ==
    IF s = <<>> THEN n ELSE DigitsValue(Tail(s), n * 10 + DigitVal(s[1]))

\* strconv.Atoi: an optional sign, then at least one digit and nothing but digits
Atoi(s) ==
    LET signed == s # <<>> /\ s[1] \in {"+", "-"}
        body == IF signed THEN Tail(s) ELSE s
    IN  IF body = <<>> \/ \E i \in 1..Len(body) : ~IsDigit(body[i])
           THEN [ok |-> FALSE, val |-> 0]
           ELSE [ok |-> TRUE,
                 val |-> IF signed /\ s[1] = "-" THEN 0 - DigitsValue(body, 0)
                                                 ELSE DigitsValue(body, 0)]

\* mutant: the comparison of line 152 is >=
RECURSIVE MaxIdxLastOnTies(_, _, _, _)
MaxIdxLastOnTies(v, i, max, idx) ==
    IF i > Len(v) THEN idx
    ELSE IF v[i] >= max THEN MaxIdxLastOnTies(v, i + 1, v[i], i)
    ELSE MaxIdxLastOnTies(v, i + 1, max, idx)

\* lines 150-156: the loop over ids[1:] from position i on, with the running max,idx
RECURSIVE MaxIdx(_, _, _, _)
MaxIdx(v, i, max, idx) ==
    IF i > Len(v) THEN idx
    ELSE IF v[i] > max THEN MaxIdx(v, i + 1, v[i], i)
    ELSE MaxIdx(v, i + 1, max, idx)

\* the directory gains an entry (ReadDir lists the entries sorted by name)
AddFile(nm) ==
    /\ lpc = "dir"
    /\ Len(files) < MaxFiles
    /\ IF files = <<>> THEN TRUE ELSE Less(files[Len(files)], nm)
    /\ files' = Append(files, nm)
    /\ UNCHANGED <<matcherVars, callVars, histVars,
                   droid, lpc, prefix, suffix, fi, hits, ids, lret, lerr, got>>

\* lines 86-94, 115-123: DroidBase / ContainerBase is called; a name that is set is
\* returned as it is, otherwise latest is called (lines 126-129)
GetBase(d, ps) ==
    /\ lpc = "dir"
    /\ droid' = d
    /\ IF d = <<>>
          THEN /\ prefix' = ps[1] /\ suffix' = ps[2]
               /\ fi' = 1 /\ hits' = <<>> /\ ids' = <<>>
               /\ lpc' = "range"
               /\ UNCHANGED got
          ELSE /\ got' = d
               /\ lpc' = "got"
               /\ UNCHANGED <<prefix, suffix, fi, hits, ids>>
    /\ UNCHANGED <<matcherVars, callVars, histVars, files, lret, lerr>>

\* lines 133-143: one iteration of the loop over the directory entries
LatestRange ==
    /\ lpc = "range"
    /\ fi <= Len(files)
    /\ LET nm == files[fi]
           id == Atoi(TrimSuffix(TrimPrefix(nm, prefix), suffix))
       IN  IF HasPrefix(nm, prefix) /\ HasSuffix(nm, suffix)
              THEN IF ~id.ok
                      THEN /\ lret' = <<>> /\ lerr' = TRUE
                           /\ lpc' = "ret"
                           /\ UNCHANGED <<hits, ids, fi>>
                      ELSE /\ hits' = Append(hits, nm)
                           /\ ids' = Append(ids, id.val)
                           /\ fi' = fi + 1
                           /\ UNCHANGED <<lpc, lret, lerr>>
              ELSE /\ fi' = fi + 1
                   /\ UNCHANGED <<hits, ids, lpc, lret, lerr>>
    /\ UNCHANGED <<matcherVars, callVars, histVars, files, droid, prefix, suffix, got>>

\* lines 144-157: after the loop
LatestSelect ==
    /\ lpc = "range"
    /\ fi > Len(files)
    /\ IF Len(hits) = 0
          THEN lret' = <<>> /\ lerr' = TRUE
          ELSE IF Len(hits) = 1
                  THEN lret' = hits[1] /\ lerr' = FALSE
                  ELSE lret' = hits[MaxIdx(ids, 2, ids[1], 1)] /\ lerr' = FALSE
    /\ lpc' = "ret"
    /\ UNCHANGED <<matcherVars, callVars, histVars,
                   files, droid, prefix, suffix, fi, hits, ids, got>>

\* lines 89-92, 118-121: the getter returns "" on error, the name otherwise
GetBaseReturn ==
    /\ lpc = "ret"
    /\ got' = IF lerr THEN <<>> ELSE lret
    /\ lpc' = "got"
    /\ UNCHANGED <<matcherVars, callVars, histVars,
                   files, droid, prefix, suffix, fi, hits, ids, lret, lerr>>

\* a home directory with no entries yet, and no file name set
LatestInit ==
    /\ MaxBOF = 0 /\ MaxEOF = 0
    /\ concurrent = FALSE /\ budget = 0 /\ started = 0
    /\ InitCalls
    /\ files = <<>> /\ droid = <<>> /\ lpc = "dir"
    /\ prefix = <<>> /\ suffix = <<>>
    /\ fi = 0 /\ hits = <<>> /\ ids = <<>>
    /\ lret = <<>> /\ lerr = FALSE /\ got = <<>>

LatestNext ==
    \/ \E nm \in Names : AddFile(nm)
    \/ \E d \in SetNames : \E ps \in PrefixSuffix : GetBase(d, ps)
    \/ LatestRange
    \/ LatestSelect
    \/ GetBaseReturn

LatestSpec == LatestInit /\ [][LatestNext]_vars


\* ------------------------------------------------------------ properties
Strikes(c) == {sent[c][i] : i \in 1..Len(sent[c])}
IsBOFSeq(k) == ~k.reverse /\ ~k.frame
IsEOFSeq(k) == k.reverse /\ ~k.frame
IsBOFFrame(k) == ~k.reverse /\ k.frame
IsEOFFrame(k) == k.reverse /\ k.frame
\* the positions of identify from line 74 on: the forward-sequence-only loop is over
\* or was never entered
MergePhase == {"frames", "rrdr", "enew", "eindex", "merge", "mergesend", "done"}
\* the source a strike claims to come from, read off its two flags
SourceOf(k) == IF k.frame THEN (IF k.reverse THEN "ef" ELSE "bf")
                          ELSE (IF k.reverse THEN "es" ELSE "bs")
\* positions of the strikes of source s among the strikes sent by call c
StrikesFrom(c, s) == {i \in 1..Len(sent[c]) : SourceOf(sent[c][i]) = s}
\* 1 when call c holds a strike of source s that the consumer has not accepted yet
HeldFrom(c, s) == IF held[c] # NoStrike /\ SourceOf(held[c]) = s THEN 1 ELSE 0

\* C1: in every call, on every path, incoming is closed at most once, identify has
\* returned only if it has closed incoming, and once incoming is closed identify is
\* not sending and no strike is delivered any more.
ClosedOnce ==
    \A c \in Calls :
        /\ closes[c] <= 1
        /\ pc[c] = "done" => closes[c] = 1 /\ incoming[c] = "closed"
        /\ closes[c] >= 1 => /\ pc[c] = "done"
                             /\ held[c] = NoStrike
                             /\ Len(sent[c]) = sentAtClose[c]

\* C1 witness: a call that delivered strikes in both phases has closed incoming and returned
ClosedOnceWitness ==
    \E c \in Calls :
        /\ pc[c] = "done" /\ closes[c] = 1 /\ ~err[c] /\ ~cancelled[c]
        /\ \E k \in Strikes(c) : IsBOFSeq(k)
        /\ \E k \in Strikes(c) : k.frame

\* C2 (as claimed): whenever identify closes incoming, every producer it started has
\* terminated (its channel is closed, it is not running or blocked sending).
ProducersDoneAtClose ==
    \A c \in Calls : closes[c] >= 1 => liveAtClose[c] = {}

\* C3 (as claimed): once quit has been asserted, no strike is sent that identify was
\* not already sending at that moment.
NoStrikeAfterQuit ==
    \A c \in Calls :
        quit[c] => Len(sent[c]) <= sentAtQuit[c] + (IF heldAtQuit[c] THEN 1 ELSE 0)

\* C3 (amended): identify sends no further strike once it has itself observed the
\* cancellation, which it does only when it finds the forward sequence channel closed
\* in the forward-sequence-only loop: it then closes incoming and returns with the
\* strikes sent so far, and starts no other producer.
NoStrikeAfterQuitObserved ==
    \A c \in Calls :
        cancelled[c] => /\ quit[c]
                        /\ pc[c] = "done"
                        /\ Len(sent[c]) = seqExitAt[c]
                        /\ \A s \in Sources \ {"bs"} : pst[c][s] = "none"

\* C3 witness: a call cancelled after it had delivered a strike, closed at the
\* forward-sequence-only loop
NoStrikeAfterQuitWitness ==
    \E c \in Calls :
        /\ cancelled[c] /\ pc[c] = "done"
        /\ sentAtQuit[c] >= 1 /\ Len(sent[c]) > sentAtQuit[c]

ConcBuildOnce ==
    /\ bBuilds <= 1 /\ eBuilds <= 1
    /\ ~replaced

\* C5: in a call with a forward reader, every strike of the frame matchers or of the
\* reverse sequence engine comes after the strikes sent before bchan was seen closed
\* or the gate was received; until then only forward-sequence strikes are sent and
\* none of the three other producers is started.
SeqOnlyFirst ==
    \A c \in Calls :
        rdr[c] # "nil" =>
            /\ seqExit[c] = "none" =>
                   /\ \A s \in Sources \ {"bs"} : pst[c][s] = "none"
                   /\ \A k \in Strikes(c) : IsBOFSeq(k)
            /\ seqExit[c] # "none" =>
                   \A i \in 1..Len(sent[c]) : ~IsBOFSeq(sent[c][i]) => i > seqExitAt[c]
            /\ seqExit[c] = "gate" <=> gate[c] = "taken"

\* C5 witness: after a gate signal that followed a forward-sequence strike, a frame
\* strike has been sent
SeqOnlyFirstWitness ==
    \E c \in Calls :
        /\ rdr[c] # "nil" /\ seqExit[c] = "gate" /\ seqExitAt[c] >= 1
        /\ \E i \in 1..Len(sent[c]) : sent[c][i].frame

\* C6: with calls made one after another, each sequence engine is built at most once
\* and keeps the value of its first build; the forward engine is built by the first
\* call when MaxBOF # 0; with a zero limit the engine is never built.
BuildOnce ==
    ~overlap =>
        /\ bBuilds <= 1 /\ eBuilds <= 1
        /\ bAho = bBuilds /\ eAho = eBuilds
        /\ bstarted <=> bBuilds = 1
        /\ estarted <=> eBuilds = 1
        /\ MaxBOF = 0 => bBuilds = 0
        /\ MaxEOF = 0 => eBuilds = 0
        /\ MaxBOF # 0 /\ (started >= 2 \/ \E c \in Calls : pc[c] \notin {"idle", "bnew"})
              => bBuilds = 1
        /\ \A c \in Calls : rrdr[c] # "nil" /\ pc[c] # "enew" => eBuilds = 1

\* C6 witness: a second call runs its forward and reverse engines, each built once
BuildOnceWitness ==
    /\ started = 2 /\ ~overlap /\ bBuilds = 1 /\ eBuilds = 1
    /\ \E c \in Calls : pc[c] = "merge" /\ engine[c]["bs"] = 1 /\ engine[c]["es"] = 1

\* C8: with MaxBOF = 0 no forward-sequence strike is sent and the forward sequence
\* engine is not started; the forward frame matcher is started all the same.
NoBOFSeqStrike ==
    MaxBOF = 0 =>
        \A c \in Calls :
            /\ \A k \in Strikes(c) : ~IsBOFSeq(k)
            /\ held[c] # NoStrike => ~IsBOFSeq(held[c])
            /\ pst[c]["bs"] = "none"
            /\ pc[c] \in {"merge", "mergesend"} => pst[c]["bf"] # "none"

\* C8 witness: with MaxBOF = 0 a strike of the forward frame matcher has been sent
NoBOFSeqStrikeWitness ==
    /\ MaxBOF = 0
    /\ \E c \in Calls : \E k \in Strikes(c) : IsBOFFrame(k)

\* C9: with MaxEOF = 0 no reverse-sequence strike is sent, no reverse reader is
\* constructed and the reverse engine is not started; the reverse frame matcher is
\* started all the same.
NoEOFSeqStrike ==
    MaxEOF = 0 =>
        \A c \in Calls :
            /\ \A k \in Strikes(c) : ~IsEOFSeq(k)
            /\ held[c] # NoStrike => ~IsEOFSeq(held[c])
            /\ rrdr[c] = "nil" /\ ~err[c]
            /\ pst[c]["es"] = "none"
            /\ pc[c] \in {"merge", "mergesend"} => pst[c]["ef"] # "none"

\* C9 witness: with MaxEOF = 0 a strike of the reverse frame matcher has been sent
NoEOFSeqStrikeWitness ==
    /\ MaxEOF = 0
    /\ \E c \in Calls : \E k \in Strikes(c) : IsEOFFrame(k)

\* C10: a call whose reverse reader construction failed has closed incoming and
\* returned; its output is the strikes of the forward-sequence-only phase (none
\* without a forward reader), all of them forward-sequence strikes; the reverse
\* sequence engine was not started.
RReaderFailure ==
    \A c \in Calls :
        err[c] =>
            /\ MaxEOF # 0
            /\ pc[c] = "done" /\ closes[c] = 1
            /\ Len(sent[c]) = (IF rdr[c] # "nil" THEN seqExitAt[c] ELSE 0)
            /\ \A k \in Strikes(c) : IsBOFSeq(k)
            /\ pst[c]["es"] = "none" /\ engine[c]["es"] = 0 /\ rrdr[c] = "nil"

\* C10 witness: a failed call that had sent a strike in the forward-sequence-only
\* phase and left it by a gate signal
RReaderFailureWitness ==
    \E c \in Calls : err[c] /\ Len(sent[c]) >= 1 /\ seqExit[c] = "gate"


SeqClosedOutcome ==
    \A c \in Calls :
        seqExit[c] = "closed" /\ pc[c] # "seqquit" =>
            IF cancelled[c]
               THEN /\ pc[c] = "done" /\ closes[c] = 1
                    /\ \A s \in Sources \ {"bs"} : pst[c][s] = "none" /\ ~chans[c][s]
                    /\ rrdr[c] = "nil" /\ ~err[c] /\ engine[c]["es"] = 0
               ELSE /\ pc[c] \in {"frames", "rrdr", "enew", "eindex", "merge", "mergesend", "done"}
                    /\ pst[c]["bs"] = "closed"
                    /\ \A i \in 1..Len(sent[c]) : i > seqExitAt[c] => ~IsBOFSeq(sent[c][i])
                    /\ held[c] # NoStrike => ~IsBOFSeq(held[c])
                    /\ pc[c] = "done" /\ ~err[c] => ~chans[c]["bs"]

\* C12 witness: a call whose forward channel closed without cancellation has sent a
\* forward-sequence strike, then a frame strike, and has returned normally
SeqClosedOutcomeWitness ==
    \E c \in Calls :
        /\ seqExit[c] = "closed" /\ ~cancelled[c] /\ ~err[c] /\ pc[c] = "done"
        /\ seqExitAt[c] >= 1 /\ Len(sent[c]) > seqExitAt[c]


\* C13: once a gate signal has been received in the forward-sequence-only loop,
\* identify has left that loop although the forward producer need not have closed;
\* bchan is set to nil only after the producer closed it; every event taken from it
\* is sent (or held for sending) as a strike with reverse=false, frame=false; and a
\* call that returns without cancellation and without a reverse-reader failure has
\* forwarded every event the forward engine emitted, those after the gate included.
GateHandOver ==
    \A c \in Calls :
        seqExit[c] = "gate" =>
            /\ pc[c] \in {"frames", "rrdr", "enew", "eindex", "merge", "mergesend", "done"}
            /\ gate[c] = "taken"
            /\ ~chans[c]["bs"] => pst[c]["bs"] = "closed"
            /\ Cardinality(StrikesFrom(c, "bs")) + HeldFrom(c, "bs") = taken[c]["bs"]
            /\ pc[c] = "done" /\ ~err[c] /\ ~quit[c] =>
                  /\ Cardinality(StrikesFrom(c, "bs")) = nemit[c]["bs"]
                  /\ ~chans[c]["bs"]

\* C13 witness: a call left the loop on a gate signal while the forward producer was
\* still running, sent a forward-sequence strike after that, and returned normally
GateHandOverWitness ==
    \E c \in Calls :
        /\ seqExit[c] = "gate" /\ pc[c] = "done" /\ ~err[c] /\ ~quit[c]
        /\ \E i \in StrikesFrom(c, "bs") : i > seqExitAt[c]


\* C14: a gate signal is received only in the forward-sequence-only loop; a gate
\* that stands asserted once identify is past that loop (or never entered it) is
\* never received, and if the consumer keeps accepting strikes the call still closes
\* incoming and returns, having forwarded every event the producers emitted when
\* there was neither cancellation nor reverse-reader failure.
LateGateIgnored ==
    /\ [](\A c \in Calls : gate[c] = "taken" => seqExit[c] = "gate")
    /\ [][\A c \in Calls :
              gate[c] = "asserted" /\ pc[c] \in MergePhase =>
                  gate'[c] = "asserted" \/ pc'[c] \notin MergePhase]_vars
    /\ \A c \in Calls :
          ([]<>(held[c] = NoStrike)) =>
              ((gate[c] = "asserted" /\ pc[c] \in MergePhase /\ pc[c] # "done") ~>
                  (/\ pc[c] = "done" /\ closes[c] = 1 /\ gate[c] = "asserted"
                   /\ ~quit[c] /\ ~err[c] => Len(sent[c]) = Emitted(c)))

\* C14 witness: a call without a forward reader, whose gate was asserted and never
\* received, has sent a strike and returned normally
LateGateIgnoredWitness ==
    \E c \in Calls :
        /\ MaxBOF = 0 /\ gate[c] = "asserted" /\ seqExit[c] = "none"
        /\ pc[c] = "done" /\ closes[c] = 1 /\ ~err[c] /\ ~quit[c] /\ Len(sent[c]) >= 1


\* C15: a call that returns without cancellation and without reverse-reader failure
\* has all four channel variables nil; a channel variable becomes nil only in the
\* merge loop after its producer closed the channel, stays nil for the rest of the
\* call, and nothing is received from a nil channel; and if quit is never asserted,
\* the reverse reader is constructed, the consumer keeps accepting strikes and the
\* producers close their channels, the call eventually closes incoming and returns.
MergeTerminates ==
    /\ [](\A c \in Calls :
             pc[c] = "done" /\ ~err[c] /\ ~cancelled[c] =>
                 closes[c] = 1 /\ \A s \in Sources : ~chans[c][s])
    /\ [][\A c \in Calls : \A s \in Sources :
              /\ chans[c][s] /\ ~chans'[c][s] /\ pc'[c] \in MergePhase =>
                    pc[c] = "merge" /\ pst[c][s] = "closed"
              /\ ~chans[c][s] /\ pc[c] \in {"merge", "mergesend"} =>
                    ~chans'[c][s] /\ taken'[c][s] = taken[c][s]]_vars
    /\ \A c \in Calls :
          (([]<>(held[c] = NoStrike)) /\ [](~quit[c]) /\ [](~err[c])) =>
              (Active(c) ~> (pc[c] = "done" /\ closes[c] = 1 /\ \A s \in Sources : ~chans[c][s]))

\* C15 witness: a call that started all four producers and sent a strike has
\* returned with every producer closed and every channel variable nil
MergeTerminatesWitness ==
    \E c \in Calls :
        /\ pc[c] = "done" /\ ~quit[c] /\ ~err[c] /\ Len(sent[c]) >= 1
        /\ \A s \in Sources : pst[c][s] = "closed" /\ ~chans[c][s]


\* C16: the strikes of one source leave in the order in which the source emitted
\* its events (the k-th event of a source has offset k): of two strikes of the same
\* source the earlier one has the smaller offset, and a strike held for sending has
\* a greater offset than every strike of its source already sent; for the forward
\* sequence engine also when one was sent in the forward-sequence-only loop and the
\* other in the merge loop.
SourceOrder ==
    \A c \in Calls :
        /\ \A i, j \in 1..Len(sent[c]) :
              i < j /\ SourceOf(sent[c][i]) = SourceOf(sent[c][j]) =>
                  sent[c][i].off < sent[c][j].off
        /\ \A i \in 1..Len(sent[c]) :
              held[c] # NoStrike /\ SourceOf(sent[c][i]) = SourceOf(held[c]) =>
                  sent[c][i].off < held[c].off

\* C16 witness: two forward-sequence strikes, the first sent in the
\* forward-sequence-only loop, the second in the merge loop after a gate signal
SourceOrderWitness ==
    \E c \in Calls :
        /\ seqExit[c] = "gate" /\ seqExitAt[c] = 1 /\ Len(sent[c]) = 2
        /\ SourceOf(sent[c][1]) = "bs" /\ SourceOf(sent[c][2]) = "bs"
        /\ sent[c][1].off = 1 /\ sent[c][2].off = 2

\* the test-tree table of a source, as the four strike literals name them
TableFor(s) ==
    CASE s = "bs" -> BOFSeqTTI [] s = "es" -> EOFSeqTTI
      [] s = "bf" -> BOFFramesTTI [] s = "ef" -> EOFFramesTTI

\* strike k is what the claim says of the n-th event of source s
CarriesEvent(k, s, n) ==
    /\ k.reverse = (s \in {"es", "ef"})
    /\ k.frame = (s \in {"bf", "ef"})
    /\ k.final = (IF s \in {"bf", "ef"} THEN TRUE ELSE EventOf(s, n).final)
    /\ k.node = TableFor(s)[EventOf(s, n).idx]
    /\ k.off = EventOf(s, n).off
    /\ k.len = EventOf(s, n).len

\* C17: every strike sent or held carries the flags, the table entry, the offset
\* and the length of an event that the source named by its flags did emit; for
\* every source the number of strikes with its flags is the number of events taken
\* from its channel; and the strikes of the forward-sequence-only loop are
\* forward-sequence strikes.
StrikeFlags ==
    \A c \in Calls :
        /\ \A i \in 1..Len(sent[c]) :
              \E n \in 1..nemit[c][SourceOf(sent[c][i])] :
                  CarriesEvent(sent[c][i], SourceOf(sent[c][i]), n)
        /\ held[c] # NoStrike =>
              \E n \in 1..nemit[c][SourceOf(held[c])] :
                  CarriesEvent(held[c], SourceOf(held[c]), n)
        /\ \A s \in Sources : Cardinality(StrikesFrom(c, s)) + HeldFrom(c, s) = taken[c][s]
        /\ pc[c] \in {"seqloop", "seqsend", "seqquit"} => \A s \in Sources \ {"bs"} : taken[c][s] = 0

\* C17 witness: one call has sent a reverse-sequence strike that is not final, from
\* the first entry of the reverse sequence table, and a forward-frame strike
StrikeFlagsWitness ==
    \E c \in Calls : \E i, j \in 1..Len(sent[c]) :
        /\ sent[c][i].reverse /\ ~sent[c][i].frame
        /\ sent[c][i].node = 21 /\ ~sent[c][i].final
        /\ ~sent[c][j].reverse /\ sent[c][j].frame /\ sent[c][j].final /\ sent[c][j].node = 31

\* the number of events call c has taken from its producers
Taken(c) == taken[c]["bs"] + taken[c]["bf"] + taken[c]["ef"] + taken[c]["es"]

\* C18: the events taken from the producers are the strikes delivered plus the one
\* strike identify is blocked sending, if any; and while a strike is undelivered
\* identify takes no event, accepts no gate signal and observes no closure.
HoldsAtMostOne ==
    /\ [](\A c \in Calls :
             /\ Taken(c) = Len(sent[c]) + (IF held[c] # NoStrike THEN 1 ELSE 0)
             /\ held[c] # NoStrike <=> pc[c] \in {"seqsend", "mergesend"})
    /\ [][\A c \in Calls :
              held[c] # NoStrike =>
                  /\ taken'[c] = taken[c] /\ chans'[c] = chans[c]
                  /\ gate'[c] = "taken" => gate[c] = "taken"
                  /\ held'[c] = held[c] \/ (held'[c] = NoStrike /\ sent'[c] = Append(sent[c], held[c]))
       ]_vars

\* C18 witness: identify is blocked sending a strike while another producer already
\* offers its next event and the gate is asserted
HoldsAtMostOneWitness ==
    \E c \in Calls :
        /\ pc[c] = "seqsend" /\ held[c] # NoStrike /\ Taken(c) = 1
        /\ pst[c]["bs"] = "offer" /\ gate[c] = "asserted"

\* C19: when a call has returned with neither cancellation nor reverse-reader
\* failure, the strikes sent before incoming was closed are, source by source, the
\* strikes of the events the producers emitted, each exactly once, and no others.
StrikesAreEvents ==
    \A c \in Calls :
        pc[c] = "done" /\ ~quit[c] /\ ~err[c] =>
            /\ closes[c] = 1 /\ sentAtClose[c] = Len(sent[c])
            /\ Len(sent[c]) = Emitted(c)
            /\ \A s \in Sources : \A n \in 1..nemit[c][s] :
                  Cardinality({i \in 1..Len(sent[c]) : sent[c][i] = StrikeOf(s, EventOf(s, n))}) = 1
            /\ \A i \in 1..Len(sent[c]) :
                  \E s \in Sources : \E n \in 1..nemit[c][s] :
                      sent[c][i] = StrikeOf(s, EventOf(s, n))

\* C19 witness: a call in which two different producers emitted an event each has
\* returned normally
StrikesAreEventsWitness ==
    \E c \in Calls :
        /\ pc[c] = "done" /\ ~quit[c] /\ ~err[c] /\ Len(sent[c]) = 2
        /\ nemit[c]["bs"] = 1 /\ nemit[c]["ef"] = 1


\* the positions of the entries that have the prefix and the suffix
Matching == {i \in 1..Len(files) : HasPrefix(files[i], prefix) /\ HasSuffix(files[i], suffix)}
\* the part of entry i left when prefix and suffix are removed
Middle(i) == TrimSuffix(TrimPrefix(files[i], prefix), suffix)
\* a decimal integer: digits, at least one, after an optional sign
IsInteger(m) ==
    \E k \in {0, 1} :
        /\ Len(m) > k
        /\ k = 1 => m[1] \in {"+", "-"}
        /\ \A j \in (k + 1)..Len(m) : m[j] \in {"0", "1", "2", "3", "4", "5", "6", "7", "8", "9"}
\* its value
Number(i) == Atoi(Middle(i)).val

\* C20: when latest has returned, it returned an error exactly if no entry has the
\* prefix and the suffix or the middle part of some such entry is not an integer;
\* otherwise it returned the first of the entries whose number is greatest; and a
\* getter called with no file name set returns "" on error and that name otherwise.
LatestGreatest ==
    (lpc \in {"ret", "got"} /\ droid = <<>>) =>
        /\ lerr <=> (Matching = {} \/ \E i \in Matching : ~IsInteger(Middle(i)))
        /\ lerr => lret = <<>>
        /\ ~lerr => \E i \in Matching :
                       /\ lret = files[i]
                       /\ \A j \in Matching : Number(j) <= Number(i)
                       /\ \A j \in Matching : j < i => Number(j) < Number(i)
        /\ lpc = "got" => got = (IF lerr THEN <<>> ELSE lret)

\* C20 witness: of two entries with the same number, 01 and 1, the getter returned
\* the one listed first
LatestGreatestWitness ==
    /\ lpc = "got" /\ droid = <<>> /\ ~lerr
    /\ files = << <<"V", "0", "1", "x">>, <<"V", "1", "x">> >>
    /\ got = <<"V", "0", "1", "x">>

====
